---- MODULE Spec2Model ----
(***************************************************************************)
(* Model of madewithml/evaluate.py: the three metric calculators           *)
(* (get_overall_metrics, get_per_class_metrics, get_slice_metrics), the    *)
(* two slicing functions (nlp_llm, short_text) and the metrics block of    *)
(* evaluate.                                                               *)
(*                                                                         *)
(* Conventions of the model:                                               *)
(*  - a numpy label array is a sequence of class indices;                  *)
(*  - a Python str is a sequence of one-character strings;                 *)
(*  - a Python dict is the sequence of its (key, value) pairs in insertion *)
(*    order;                                                               *)
(*  - a float metric is the exact rational [num, den] in lowest terms      *)
(*    (rounding of the float representation is not modelled);              *)
(*  - a call returns [status, value]: status is "ok" or the name of the    *)
(*    exception that leaves the function.                                  *)
(* precision_recall_fscore_support (scikit-learn) is modelled by what it   *)
(* computes for the three averaging modes the source uses, with labels     *)
(* left at its default (the sorted labels that occur in y_true or y_pred)  *)
(* and zero_division at its default (a 0/0 metric is 0).                   *)
(***************************************************************************)
EXTENDS Integers, Sequences, FiniteSets

VARIABLES pc, fn, y_true, y_pred, class_to_index, df, x, ret

vars == <<pc, fn, y_true, y_pred, class_to_index, df, x, ret>>

(***************************************************************************)
(* Bounds of the model.                                                    *)
(***************************************************************************)
\* longest label array handed to get_overall_metrics / get_per_class_metrics
MaxLen == 4
\* most rows of the dataframe handed to get_slice_metrics
MaxRows == 3
\* most rows of the dataset evaluate works on
MaxEvalRows == 2

\* class names of the class index mappings tried, in index order
ClassNames == <<"a", "b", "c">>

\* label universe of the arrays handed to get_slice_metrics
SliceLabels == {0, 1}

(***************************************************************************)
(* Sample strings.                                                         *)
(***************************************************************************)
TagNlp ==
    <<"n", "a", "t", "u", "r", "a", "l", "-", "l", "a", "n", "g", "u", "a", "g", "e", "-", "p", "r", "o", "c", "e", "s", "s", "i", "n", "g">>

TagCv ==
    <<"c", "o", "m", "p", "u", "t", "e", "r", "-", "v", "i", "s", "i", "o", "n">>

TagMlops ==
    <<"m", "l", "o", "p", "s">>

TagNlpLong ==
    <<"n", "a", "t", "u", "r", "a", "l", "-", "l", "a", "n", "g", "u", "a", "g", "e", "-", "p", "r", "o", "c", "e", "s", "s", "i", "n", "g", "-", "r", "e", "s", "e", "a", "r", "c", "h">>

TextBert ==
    <<"A", " ", "n", "e", "w", " ", "B", "E", "R", "T", " ", "m", "o", "d", "e", "l">>

TextShort ==
    <<"a", " ", "b", " ", "c">>

TextLong ==
    <<"a", " ", "b", " ", "c", " ", "d", " ", "e", " ", "f", " ", "g", " ", "h", " ", "i">>

TextTransformers ==
    <<"T", "r", "a", "n", "s", "f", "o", "r", "m", "e", "r", "s", " ", "f", "o", "r", " ", "t", "h", "e", " ", "l", "o", "n", "g", " ", "t", "a", "i", "l", " ", "o", "f", " ", "t", "e", "x", "t", " ", "t", "a", "s", "k", "s">>

TextLlmTabs ==
    <<"f", "i", "n", "e", "\t", "t", "u", "n", "e", " ", "a", "n", " ", " ", "L", "L", "M", "\n">>

TextBret ==
    <<"b", "r", "e", "t", " ", "l", "m", " ", "t", "r", "a", "n", "s", " ", "f", "o", "r", "m", "e", "r">>

TextEight ==
    <<"o", "n", "e", " ", "t", "w", "o", " ", "t", "h", "r", "e", "e", " ", "f", "o", "u", "r", " ", "f", "i", "v", "e", " ", "s", "i", "x", " ", "s", "e", "v", "e", "n", " ", "e", "i", "g", "h", "t">>

TextSeven ==
    <<" ", "o", "n", "e", " ", "t", "w", "o", " ", "t", "h", "r", "e", "e", " ", "f", "o", "u", "r", " ", "f", "i", "v", "e", " ", "s", "i", "x", " ", "s", "e", "v", "e", "n", " ">>

TextEmpty ==
    <<>>

Tags == {TagNlp, TagCv, TagMlops, TagNlpLong}

Texts == {TextBert, TextShort, TextLong, TextTransformers, TextLlmTabs,
          TextBret, TextEight, TextSeven, TextEmpty}

\* rows of the dataframes tried by get_slice_metrics and evaluate
Rows == { [text |-> TextBert, tag |-> TagNlp],
          [text |-> TextTransformers, tag |-> TagNlp],
          [text |-> TextShort, tag |-> TagCv],
          [text |-> TextLong, tag |-> TagCv] }

(***************************************************************************)
(* Python str operations.                                                  *)
(***************************************************************************)
UpperCase == <<"A", "B", "C", "D", "E", "F", "G", "H", "I", "J", "K", "L", "M",
               "N", "O", "P", "Q", "R", "S", "T", "U", "V", "W", "X", "Y", "Z">>

LowerCase == <<"a", "b", "c", "d", "e", "f", "g", "h", "i", "j", "k", "l", "m",
               "n", "o", "p", "q", "r", "s", "t", "u", "v", "w", "x", "y", "z">>

Whitespace == {" ", "\t", "\n"}

\* str.lower() on one character
lower_char(c) ==
    IF \E i \in DOMAIN UpperCase : UpperCase[i] = c
    THEN LowerCase[CHOOSE i \in DOMAIN UpperCase : UpperCase[i] = c]
    ELSE c

\* str.lower()
str_lower(s) == [k \in 1..Len(s) |-> lower_char(s[k])]

\* needle in hay
str_in(needle, hay) ==
    \E o \in 0..(Len(hay) - Len(needle)) :
        SubSeq(hay, o + 1, o + Len(needle)) = needle

\* len(s.split()): the number of maximal runs of non-whitespace characters
RECURSIVE split_len(_, _, _)
split_len(s, k, in_token) ==
    IF k > Len(s) THEN 0
    ELSE IF s[k] \in Whitespace THEN split_len(s, k + 1, FALSE)
    ELSE (IF in_token THEN 0 ELSE 1) + split_len(s, k + 1, TRUE)

(***************************************************************************)
(* The slicing functions.                                                  *)
(***************************************************************************)
llm_terms == << <<"t", "r", "a", "n", "s", "f", "o", "r", "m", "e", "r">>,
                <<"l", "l", "m">>,
                <<"b", "e", "r", "t">> >>

nlp_llm_case_sensitive(e) ==
    /\ str_in(TagNlp, e.tag)
    /\ \E j \in DOMAIN llm_terms : str_in(str_lower(llm_terms[j]), e.text)

nlp_llm(e) ==
    LET nlp_project == str_in(TagNlp, e.tag)
        llm_project == \E j \in DOMAIN llm_terms :
                           str_in(str_lower(llm_terms[j]), str_lower(e.text))
    IN  nlp_project /\ llm_project

\* "less than 8 words"
ShortTextWords == 8

short_text(e) == split_len(e.text, 1, FALSE) < ShortTextWords

slicing_functions == <<"nlp_llm", "short_text">>

\* the slicing function of that name applied to one row
apply_sf(name, e) == IF name = "nlp_llm" THEN nlp_llm(e) ELSE short_text(e)

(***************************************************************************)
(* Exact rationals standing for the float metrics.                         *)
(***************************************************************************)
RECURSIVE gcd(_, _)
gcd(a, b) == IF b = 0 THEN a ELSE gcd(b, a % b)

\* n / d in lowest terms, d > 0
frac(n, d) == LET g == gcd(n, d) IN [num |-> n \div g, den |-> d \div g]

zero == [num |-> 0, den |-> 1]

r_add(p, q) == frac(p.num * q.den + q.num * p.den, p.den * q.den)

r_mul(p, q) == frac(p.num * q.num, p.den * q.den)

r_less(p, q) == p.num * q.den < q.num * p.den

(***************************************************************************)
(* numpy helpers.                                                          *)
(***************************************************************************)
\* the values of an array
values(arr) == {arr[k] : k \in DOMAIN arr}

\* the elements of a finite set of integers in ascending order
RECURSIVE sorted_seq(_)
sorted_seq(S) ==
    IF S = {} THEN <<>>
    ELSE LET m == CHOOSE v \in S : \A w \in S : v <= w
         IN  <<m>> \o sorted_seq(S \ {m})

RECURSIVE int_sum(_)
int_sum(s) == IF s = <<>> THEN 0 ELSE Head(s) + int_sum(Tail(s))

RECURSIVE r_sum(_)
r_sum(s) == IF s = <<>> THEN zero ELSE r_add(Head(s), r_sum(Tail(s)))

\* arr[mask] for a boolean mask: the entries at the true positions, in order
RECURSIVE masked_from(_, _, _)
masked_from(arr, mask, k) ==
    IF k > Len(mask) THEN <<>>
    ELSE (IF mask[k] THEN <<arr[k]>> ELSE <<>>) \o masked_from(arr, mask, k + 1)

masked(arr, mask) == masked_from(arr, mask, 1)

\* sum(mask)
mask_sum(mask) == Cardinality({k \in DOMAIN mask : mask[k]})

(***************************************************************************)
(* sklearn.metrics.precision_recall_fscore_support.                        *)
(***************************************************************************)
check_consistent_length_skipped(T, P) == TRUE

\* False is sklearn's ValueError for arrays of different lengths
check_consistent_length(T, P) == Len(T) = Len(P)

\* labels=None: the sorted labels that occur in y_true or y_pred
unique_labels(T, P) == sorted_seq(values(T) \cup values(P))

\* the positions two arrays share
positions(T, P) == DOMAIN T \cap DOMAIN P

\* per label: true positives, predicted count, true count
tp_sum(T, P, L) ==
    [j \in DOMAIN L |->
        Cardinality({k \in positions(T, P) : T[k] = L[j] /\ P[k] = L[j]})]

pred_sum(T, P, L) == [j \in DOMAIN L |-> Cardinality({k \in DOMAIN P : P[k] = L[j]})]

true_sum(T, P, L) == [j \in DOMAIN L |-> Cardinality({k \in DOMAIN T : T[k] = L[j]})]

\* _prf_divide: numerator / denominator, 0 where the denominator is 0
prf_divide(n, d) == IF d = 0 THEN zero ELSE frac(n, d)

\* F1 from precision and recall: 2pr / (p + r), 0 where p + r is 0
f_score(p, r) ==
    LET s == r_add(p, r)
    IN  IF s.num = 0 THEN zero
        ELSE frac(2 * p.num * r.num * s.den, p.den * r.den * s.num)

\* average=None: one precision, recall, f-score and support per label
prfs_none(T, P) ==
    LET L  == unique_labels(T, P)
        tp == tp_sum(T, P, L)
        ps == pred_sum(T, P, L)
        ts == true_sum(T, P, L)
        precision == [j \in DOMAIN L |-> prf_divide(tp[j], ps[j])]
        recall    == [j \in DOMAIN L |-> prf_divide(tp[j], ts[j])]
    IN  << precision, recall,
           [j \in DOMAIN L |-> f_score(precision[j], recall[j])],
           ts >>

prfs_macro(T, P) ==
    LET m == prfs_none(T, P)
        n == Len(m[4])
    IN  IF n = 0 THEN <<zero, zero, zero>>
        ELSE << r_mul(r_sum(m[1]), frac(1, n)),
                r_mul(r_sum(m[2]), frac(1, n)),
                r_mul(r_sum(m[3]), frac(1, n)) >>

\* average="micro": the counts are summed over the labels first
prfs_micro(T, P) ==
    LET L  == unique_labels(T, P)
        tp == int_sum(tp_sum(T, P, L))
        ps == int_sum(pred_sum(T, P, L))
        ts == int_sum(true_sum(T, P, L))
        precision == prf_divide(tp, ps)
        recall    == prf_divide(tp, ts)
    IN  <<precision, recall, f_score(precision, recall)>>

prfs_weighted_unnormalised(T, P) ==
    LET m == prfs_none(T, P)
        w(v) == [j \in DOMAIN v |-> r_mul(frac(m[4][j], 1), v[j])]
    IN  <<r_sum(w(m[1])), r_sum(w(m[2])), r_sum(w(m[3]))>>

\* average="weighted": the per-label values averaged with the true counts as
\* weights; all 0 when the weights sum to 0
prfs_weighted(T, P) ==
    LET m == prfs_none(T, P)
        total == int_sum(m[4])
        avg(v) == r_mul(r_sum([j \in DOMAIN v |-> r_mul(frac(m[4][j], 1), v[j])]),
                        frac(1, total))
    IN  IF total = 0 THEN <<zero, zero, zero>>
        ELSE <<avg(m[1]), avg(m[2]), avg(m[3])>>

(***************************************************************************)
(* The calculators.                                                        *)
(***************************************************************************)
ok(v) == [status |-> "ok", value |-> v]

raised(e) == [status |-> e, value |-> <<>>]

get_overall_metrics(T, P) ==
    IF ~check_consistent_length(T, P) THEN raised("ValueError")
    ELSE LET metrics == prfs_weighted(T, P)
         IN  ok([precision |-> metrics[1],
                 recall |-> metrics[2],
                 f1 |-> metrics[3],
                 num_samples |-> Len(T)])

class_record_swapped(metrics, i) ==
    [precision |-> metrics[2][i],
     recall |-> metrics[1][i],
     f1 |-> metrics[3][i],
     num_samples |-> metrics[4][i]]

\* the record of the class at position i of class_to_index (i counts from 1)
class_record(metrics, i) ==
    [precision |-> metrics[1][i],
     recall |-> metrics[2][i],
     f1 |-> metrics[3][i],
     num_samples |-> metrics[4][i]]

\* item inserted before the first element whose f1 is not greater than its own
RECURSIVE insert_unstable(_, _)
insert_unstable(s, item) ==
    IF s = <<>> THEN <<item>>
    ELSE IF r_less(item[2].f1, Head(s)[2].f1)
         THEN <<Head(s)>> \o insert_unstable(Tail(s), item)
         ELSE <<item>> \o s

RECURSIVE sorted_reverse_unstable(_)
sorted_reverse_unstable(items) ==
    IF items = <<>> THEN <<>>
    ELSE insert_unstable(sorted_reverse_unstable(SubSeq(items, 1, Len(items) - 1)),
                         items[Len(items)])

\* item inserted behind every element whose f1 is at least its own
RECURSIVE insert_desc(_, _)
insert_desc(s, item) ==
    IF s = <<>> THEN <<item>>
    ELSE IF r_less(Head(s)[2].f1, item[2].f1)
         THEN <<item>> \o s
         ELSE <<Head(s)>> \o insert_desc(Tail(s), item)

\* sorted(items, key=f1, reverse=True): descending, equal keys in input order
RECURSIVE sorted_reverse(_)
sorted_reverse(items) ==
    IF items = <<>> THEN <<>>
    ELSE insert_desc(sorted_reverse(SubSeq(items, 1, Len(items) - 1)),
                     items[Len(items)])

get_per_class_metrics(T, P, c2i) ==
    IF ~check_consistent_length(T, P) THEN raised("ValueError")
    ELSE LET metrics == prfs_none(T, P)
         IN  IF Len(c2i) > Len(metrics[1]) THEN raised("IndexError")
             ELSE LET per_class_metrics ==
                          [i \in DOMAIN c2i |-> <<c2i[i].name, class_record(metrics, i)>>]
                  IN  ok(sorted_reverse(per_class_metrics))

slice_kept_always(mask) == TRUE

\* if sum(mask):
slice_kept(mask) == mask_sum(mask) # 0

\* the record of one slice
slice_record(T, P, mask) ==
    LET metrics == prfs_micro(masked(T, mask), masked(P, mask))
    IN  [precision |-> metrics[1],
         recall |-> metrics[2],
         f1 |-> metrics[3],
         num_samples |-> Len(masked(T, mask))]

\* the slicing functions' values on the sample rows, computed once
row_slices ==
    [r \in Rows |-> [j \in DOMAIN slicing_functions |-> apply_sf(slicing_functions[j], r)]]

\* PandasSFApplier.apply: one mask per slicing function, one entry per row
apply_slices(D) ==
    [j \in DOMAIN slicing_functions |-> [k \in DOMAIN D |-> row_slices[D[k]][j]]]

RECURSIVE slice_entries(_, _, _, _)
slice_entries(T, P, slices, j) ==
    IF j > Len(slices) THEN <<>>
    ELSE (IF slice_kept(slices[j])
          THEN << <<slicing_functions[j], slice_record(T, P, slices[j])>> >>
          ELSE <<>>)
         \o slice_entries(T, P, slices, j + 1)

get_slice_metrics(T, P, D) == ok(slice_entries(T, P, apply_slices(D), 1))

\* the metrics block of evaluate: the three calculators in order; the first
\* exception leaves evaluate and no report is built
evaluate(T, P, c2i, D) ==
    LET overall   == get_overall_metrics(T, P)
        per_class == get_per_class_metrics(T, P, c2i)
        slices    == get_slice_metrics(T, P, D)
    IN  IF overall.status # "ok" THEN raised(overall.status)
        ELSE IF per_class.status # "ok" THEN raised(per_class.status)
        ELSE IF slices.status # "ok" THEN raised(slices.status)
        ELSE ok([overall |-> overall.value,
                 per_class |-> per_class.value,
                 slices |-> slices.value])

(***************************************************************************)
(* Inputs.                                                                 *)
(***************************************************************************)
\* the arrays of at most n entries over the labels S
Arrays(n, S) == UNION {[1..m -> S] : m \in 0..n}

\* the class index mapping of the first K class names, as the label encoder
\* builds it: the k-th key inserted has index k - 1
Mapping(K) == [i \in 1..K |-> [name |-> ClassNames[i], index |-> i - 1]]

NoExample == [text |-> <<>>, tag |-> <<>>]

(***************************************************************************)
(* The state machine.  A run starts with the ground-truth labels of the    *)
(* dataset in hand and makes one call.                                     *)
(***************************************************************************)
Init ==
    /\ pc = "start"
    /\ fn = "none"
    /\ y_true \in Arrays(MaxLen, 0..(Len(ClassNames) - 1))
    /\ y_pred = <<>>
    /\ class_to_index = <<>>
    /\ df = <<>>
    /\ x = NoExample
    /\ ret = raised("none")

CallOverall ==
    /\ pc = "start"
    /\ \E P \in Arrays(MaxLen, 0..(Len(ClassNames) - 1)) :
        /\ y_pred' = P
        /\ ret' = get_overall_metrics(y_true, P)
    /\ fn' = "get_overall_metrics"
    /\ pc' = "done"
    /\ UNCHANGED <<y_true, class_to_index, df, x>>

CallPerClass ==
    /\ pc = "start"
    /\ \E K \in 1..Len(ClassNames) :
        /\ values(y_true) \subseteq 0..(K - 1)
        /\ \E P \in Arrays(MaxLen, 0..(K - 1)) :
            /\ y_pred' = P
            /\ class_to_index' = Mapping(K)
            /\ ret' = get_per_class_metrics(y_true, P, Mapping(K))
    /\ fn' = "get_per_class_metrics"
    /\ pc' = "done"
    /\ UNCHANGED <<y_true, df, x>>

CallSlice ==
    /\ pc = "start"
    /\ Len(y_true) \in 1..MaxRows
    /\ values(y_true) \subseteq SliceLabels
    /\ \E P \in [DOMAIN y_true -> SliceLabels], D \in [DOMAIN y_true -> Rows] :
        /\ y_pred' = P
        /\ df' = D
        /\ ret' = get_slice_metrics(y_true, P, D)
    /\ fn' = "get_slice_metrics"
    /\ pc' = "done"
    /\ UNCHANGED <<y_true, class_to_index, x>>

CallNlpLlm ==
    /\ pc = "start"
    /\ y_true = <<>>
    /\ \E e \in [text : Texts, tag : Tags] :
        /\ x' = e
        /\ ret' = ok(nlp_llm(e))
    /\ fn' = "nlp_llm"
    /\ pc' = "done"
    /\ UNCHANGED <<y_true, y_pred, class_to_index, df>>

CallShortText ==
    /\ pc = "start"
    /\ y_true = <<>>
    /\ \E e \in [text : Texts, tag : Tags] :
        /\ x' = e
        /\ ret' = ok(short_text(e))
    /\ fn' = "short_text"
    /\ pc' = "done"
    /\ UNCHANGED <<y_true, y_pred, class_to_index, df>>

CallEvaluate ==
    /\ pc = "start"
    /\ Len(y_true) <= MaxEvalRows
    /\ \E K \in 1..Len(ClassNames) :
        /\ values(y_true) \subseteq 0..(K - 1)
        /\ \E P \in [DOMAIN y_true -> 0..(K - 1)], D \in [DOMAIN y_true -> Rows] :
            /\ y_pred' = P
            /\ class_to_index' = Mapping(K)
            /\ df' = D
            /\ ret' = evaluate(y_true, P, Mapping(K), D)
    /\ fn' = "evaluate"
    /\ pc' = "done"
    /\ UNCHANGED <<y_true, x>>

Next ==
    \/ CallOverall
    \/ CallPerClass
    \/ CallSlice
    \/ CallNlpLlm
    \/ CallShortText
    \/ CallEvaluate

Spec == Init /\ [][Next]_vars

(***************************************************************************)
(* Vocabulary of the properties: the counts of the classic definitions,    *)
(* taken from the arrays of the call.                                      *)
(***************************************************************************)
SameLength == Len(y_true) = Len(y_pred)

\* true positives, false positives, false negatives and support of class i
\* among the positions M
TPin(M, i) == Cardinality({k \in M : y_true[k] = i /\ y_pred[k] = i})

FPin(M, i) == Cardinality({k \in M : y_pred[k] = i /\ y_true[k] # i})

FNin(M, i) == Cardinality({k \in M : y_true[k] = i /\ y_pred[k] # i})

SupportIn(M, i) == Cardinality({k \in M : y_true[k] = i})

\* the rational r is n / d, and 0 where d is 0
IsRatio(r, n, d) ==
    /\ r.den > 0
    /\ IF d = 0 THEN r.num = 0 ELSE r.num * d = n * r.den

\* rec is the classic record of class i over the positions M
IsClassRecord(rec, M, i) ==
    /\ IsRatio(rec.precision, TPin(M, i), TPin(M, i) + FPin(M, i))
    /\ IsRatio(rec.recall, TPin(M, i), TPin(M, i) + FNin(M, i))
    /\ IsRatio(rec.f1, 2 * TPin(M, i), 2 * TPin(M, i) + FPin(M, i) + FNin(M, i))
    /\ rec.num_samples = SupportIn(M, i)

\* the class indices that occur in y_true or y_pred
Occurring == values(y_true) \cup values(y_pred)

\* the keys of a returned mapping
Keys(m) == {m[e][1] : e \in DOMAIN m}

\* the insertion position of a class name in class_to_index
PositionOf(name) == CHOOSE c \in DOMAIN class_to_index : class_to_index[c].name = name

PerClassCall == fn = "get_per_class_metrics"

(***************************************************************************)
(* C1.  For equal-length non-empty arrays and every class index mapping,   *)
(* get_per_class_metrics returns a mapping whose key set is exactly the    *)
(* key set of class_to_index and whose f1 values are non-increasing from   *)
(* first to last.                                                          *)
(***************************************************************************)
C1_KeysAndOrder ==
    (PerClassCall /\ SameLength /\ Len(y_true) > 0) =>
        /\ ret.status = "ok"
        /\ Len(ret.value) = Len(class_to_index)
        /\ Keys(ret.value) = {class_to_index[c].name : c \in DOMAIN class_to_index}
        /\ \A e \in DOMAIN ret.value : \A g \in DOMAIN ret.value :
               e < g => ~r_less(ret.value[e][2].f1, ret.value[g][2].f1)

C3_AbsentClassZeroRecord ==
    (/\ PerClassCall
     /\ SameLength
     /\ Len(y_true) > 0
     /\ \E c \in DOMAIN class_to_index : class_to_index[c].index \notin Occurring) =>
        /\ ret.status = "ok"
        /\ \A c \in DOMAIN class_to_index :
               \E e \in DOMAIN ret.value :
                   /\ ret.value[e][1] = class_to_index[c].name
                   /\ IsClassRecord(ret.value[e][2], DOMAIN y_true,
                                    class_to_index[c].index)
                   /\ class_to_index[c].index \notin Occurring =>
                          /\ ret.value[e][2].precision = zero
                          /\ ret.value[e][2].recall = zero
                          /\ ret.value[e][2].f1 = zero
                          /\ ret.value[e][2].num_samples = 0

(***************************************************************************)
(* C4.  In the output of get_per_class_metrics two classes with the same   *)
(* f1 appear in the order they have in class_to_index.                     *)
(***************************************************************************)
C4_StableOrder ==
    (PerClassCall /\ ret.status = "ok") =>
        \A e \in DOMAIN ret.value : \A g \in DOMAIN ret.value :
            (e < g /\ ret.value[e][2].f1 = ret.value[g][2].f1) =>
                PositionOf(ret.value[e][1]) < PositionOf(ret.value[g][1])

\* "c" was moved ahead of the tied classes "a" and "b", which kept their order
C4_Witness ==
    /\ PerClassCall
    /\ ret.status = "ok"
    /\ Len(ret.value) = 3
    /\ ret.value[1][1] = "c"
    /\ ret.value[2][1] = "a"
    /\ ret.value[3][1] = "b"
    /\ ret.value[2][2].f1 = ret.value[3][2].f1
    /\ r_less(ret.value[2][2].f1, ret.value[1][2].f1)

(***************************************************************************)
(* Vocabulary of the slice properties.                                     *)
(***************************************************************************)
SliceCall == fn = "get_slice_metrics"

\* the rows of df the j-th slicing function is true for
Matching(j) == {k \in DOMAIN df : row_slices[df[k]][j]}

\* the positions among M where prediction and truth agree / disagree
Agree(M) == Cardinality({k \in M : y_true[k] = y_pred[k]})

Disagree(M) == Cardinality({k \in M : y_true[k] # y_pred[k]})

(***************************************************************************)
(* C5.  The output of get_slice_metrics has a key for a slicing function   *)
(* if and only if the function is true for at least one example; the       *)
(* num_samples of a key is the number of examples the function is true     *)
(* for, hence positive; a function matching no example yields no key.      *)
(***************************************************************************)
C5_SliceKeys ==
    SliceCall =>
        /\ ret.status = "ok"
        /\ Keys(ret.value) \subseteq {slicing_functions[j] : j \in DOMAIN slicing_functions}
        /\ Cardinality(Keys(ret.value)) = Len(ret.value)
        /\ \A j \in DOMAIN slicing_functions :
               /\ (slicing_functions[j] \in Keys(ret.value)) <=> (Matching(j) # {})
               /\ \A e \in DOMAIN ret.value :
                      ret.value[e][1] = slicing_functions[j] =>
                          /\ ret.value[e][2].num_samples = Cardinality(Matching(j))
                          /\ ret.value[e][2].num_samples > 0

\* nlp_llm matches no row and is left out, short_text matches two of three rows
C5_Witness ==
    /\ SliceCall
    /\ Len(df) = 3
    /\ Matching(1) = {}
    /\ Cardinality(Matching(2)) = 2
    /\ Keys(ret.value) = {"short_text"}
    /\ ret.value[1][2].num_samples = 2

(***************************************************************************)
(* C6.  The record of a slice is the micro average over the masked         *)
(* examples: with TP the masked positions where truth and prediction       *)
(* agree and FP = FN the masked positions where they differ, precision is  *)
(* TP/(TP+FP), recall TP/(TP+FN) and f1 follows from the pooled counts;    *)
(* positions outside the mask play no part.                                *)
(***************************************************************************)
C6_MicroOverMask ==
    (SliceCall /\ ret.status = "ok") =>
        \A j \in DOMAIN slicing_functions : \A e \in DOMAIN ret.value :
            ret.value[e][1] = slicing_functions[j] =>
                LET tp == Agree(Matching(j))
                    fp == Disagree(Matching(j))
                    rec == ret.value[e][2]
                IN  /\ IsRatio(rec.precision, tp, tp + fp)
                    /\ IsRatio(rec.recall, tp, tp + fp)
                    /\ IsRatio(rec.f1, 2 * tp, 2 * tp + fp + fp)

\* two short rows (one hit, one miss over two classes) and a long row that is
\* mispredicted: the slice's precision is 1/2, not the 1/3 of the whole array
\* nor the 1/4 of the per-class average
C6_Witness ==
    /\ SliceCall
    /\ df = << [text |-> TextShort, tag |-> TagCv],
               [text |-> TextShort, tag |-> TagCv],
               [text |-> TextLong, tag |-> TagCv] >>
    /\ y_true = <<0, 1, 1>>
    /\ y_pred = <<0, 0, 0>>
    /\ ret = ok(<< <<"short_text", [precision |-> [num |-> 1, den |-> 2],
                                     recall |-> [num |-> 1, den |-> 2],
                                     f1 |-> [num |-> 1, den |-> 2],
                                     num_samples |-> 2]>> >>)

(***************************************************************************)
(* C7.  For equal-length non-empty arrays get_overall_metrics returns      *)
(* precision, recall and f1 that are the support-weighted averages of the  *)
(* per-class values, each in [0, 1], and num_samples = len(y_true).        *)
(***************************************************************************)
OverallCall == fn = "get_overall_metrics"

InUnit(r) == r.den > 0 /\ 0 <= r.num /\ r.num <= r.den

\* n / d, 0 where d is 0
Ratio(n, d) == IF d = 0 THEN zero ELSE frac(n, d)

\* the sum over the classes 0..(n - 1) of support * value
RECURSIVE Weighted(_, _)
Weighted(v(_), n) ==
    IF n = 0 THEN zero
    ELSE r_add(Weighted(v, n - 1),
               r_mul(frac(SupportIn(DOMAIN y_true, n - 1), 1), v(n - 1)))

ClassPrecision(i) ==
    Ratio(TPin(DOMAIN y_true, i), TPin(DOMAIN y_true, i) + FPin(DOMAIN y_true, i))

ClassRecall(i) ==
    Ratio(TPin(DOMAIN y_true, i), TPin(DOMAIN y_true, i) + FNin(DOMAIN y_true, i))

ClassF1(i) ==
    Ratio(2 * TPin(DOMAIN y_true, i),
          2 * TPin(DOMAIN y_true, i) + FPin(DOMAIN y_true, i) + FNin(DOMAIN y_true, i))

\* r is the support-weighted average of v over all classes
IsWeightedAverage(r, v(_)) ==
    r_mul(r, frac(Len(y_true), 1)) = Weighted(v, Len(ClassNames))

C7_OverallRecord ==
    (OverallCall /\ SameLength /\ Len(y_true) > 0) =>
        /\ ret.status = "ok"
        /\ InUnit(ret.value.precision)
        /\ InUnit(ret.value.recall)
        /\ InUnit(ret.value.f1)
        /\ IsWeightedAverage(ret.value.precision, ClassPrecision)
        /\ IsWeightedAverage(ret.value.recall, ClassRecall)
        /\ IsWeightedAverage(ret.value.f1, ClassF1)
        /\ ret.value.num_samples = Len(y_true)

\* T = [0,0,1,1], P = [0,1,1,1]: precision 5/6, recall 3/4, f1 11/15 over 4 samples
C7_Witness ==
    /\ OverallCall
    /\ y_true = <<0, 0, 1, 1>>
    /\ y_pred = <<0, 1, 1, 1>>
    /\ ret = ok([precision |-> [num |-> 5, den |-> 6],
                 recall |-> [num |-> 3, den |-> 4],
                 f1 |-> [num |-> 11, den |-> 15],
                 num_samples |-> 4])

(***************************************************************************)
(* C8 as stated.  get_overall_metrics and get_per_class_metrics fail,      *)
(* returning no record or partial mapping, whenever y_true and y_pred have *)
(* different lengths or are empty; the error reaches evaluate, which then  *)
(* produces no report.                                                     *)
(***************************************************************************)
EvaluateCall == fn = "evaluate"

C8_FailsOnInvalidInput ==
    /\ ((OverallCall \/ PerClassCall) /\ (~SameLength \/ Len(y_true) = 0)) =>
           (ret.status # "ok" /\ ret.value = <<>>)
    /\ (EvaluateCall /\ Len(y_true) = 0) =>
           (ret.status # "ok" /\ ret.value = <<>>)

(***************************************************************************)
(* C8 as amended.  Both calculators fail with a ValueError, returning      *)
(* nothing, whenever y_true and y_pred have different lengths.  On empty   *)
(* arrays get_per_class_metrics fails with an IndexError for every         *)
(* non-empty class mapping, whereas get_overall_metrics returns the record *)
(* precision = recall = f1 = 0, num_samples = 0.  No error is caught, so   *)
(* evaluate on an empty dataset ends with the IndexError and no report.    *)
(***************************************************************************)
C8_FailureCases ==
    /\ ((OverallCall \/ PerClassCall) /\ ~SameLength) =>
           (ret.status = "ValueError" /\ ret.value = <<>>)
    /\ (PerClassCall /\ SameLength /\ Len(y_true) = 0) =>
           (ret.status = "IndexError" /\ ret.value = <<>>)
    /\ (OverallCall /\ SameLength /\ Len(y_true) = 0) =>
           /\ ret.status = "ok"
           /\ ret.value.precision.num = 0
           /\ ret.value.recall.num = 0
           /\ ret.value.f1.num = 0
           /\ ret.value.num_samples = 0
    /\ (EvaluateCall /\ Len(y_true) = 0) =>
           (ret.status = "IndexError" /\ ret.value = <<>>)

\* a call with two labels and three predictions left with the ValueError
C8_Witness ==
    /\ OverallCall \/ PerClassCall
    /\ Len(y_true) = 2
    /\ Len(y_pred) = 3
    /\ ret.status = "ValueError"

(***************************************************************************)
(* C9.  nlp_llm is true for an example if and only if its tag contains     *)
(* "natural-language-processing" and its text contains, compared without   *)
(* regard to case, one of "transformer", "llm", "bert" as a substring.     *)
(***************************************************************************)
NlpLlmCall == fn = "nlp_llm"

\* s occurs in t at offset o when case is ignored
OccursAt(s, t, o) ==
    /\ o + Len(s) <= Len(t)
    /\ \A j \in DOMAIN s : lower_char(t[o + j]) = lower_char(s[j])

TagIsNlp(tag) ==
    \E o \in 0..Len(tag) :
        /\ o + Len(TagNlp) <= Len(tag)
        /\ \A j \in DOMAIN TagNlp : tag[o + j] = TagNlp[j]

MentionsLlm(text) ==
    \E s \in { <<"t", "r", "a", "n", "s", "f", "o", "r", "m", "e", "r">>,
               <<"l", "l", "m">>,
               <<"b", "e", "r", "t">> } :
        \E o \in 0..Len(text) : OccursAt(s, text, o)

C9_NlpLlm ==
    NlpLlmCall =>
        /\ ret.status = "ok"
        /\ ret.value = (TagIsNlp(x.tag) /\ MentionsLlm(x.text))

\* the example of the claim: tag natural-language-processing, "A new BERT model"
C9_Witness ==
    /\ NlpLlmCall
    /\ x = [text |-> TextBert, tag |-> TagNlp]
    /\ ret = ok(TRUE)

====
